---- MODULE Spec2Model ----
(***************************************************************************)
(* A model of the MAPMF pipeline: the Retriever (mapmf_scraper.py,         *)
(* scrape_all_alerts) and the Normalizer (mapmf_cleaner.py,                *)
(* clean_mapmf_data).  Text is modelled as a sequence of one-character     *)
(* strings, so parsing, joining and formatting are computed, not assumed.  *)
(***************************************************************************)
EXTENDS Integers, Sequences, FiniteSets, TLC

VARIABLES
    \* ---- Retriever (scrape_all_alerts) ----
    spc,            \* position in scrape_all_alerts: "loop", "save", "done"
    target_count,   \* the caller's target_count
    all_alerts,     \* the accumulated raw records
    offset,         \* the running offset
    fetches,        \* history: every fetch_alerts call, its offset and result
    out_files,      \* history: every table written by df.to_csv
    \* ---- Normalizer (clean_mapmf_data) ----
    cpc,            \* position in clean_mapmf_data, "aborted" after an exception
    run,            \* 1 for a run on a capture, 2 for a run on its own output
    file,           \* the content of input_file
    df,             \* the DataFrame
    derived_columns,    \* history: list(df.columns) before the reordering
    duplicates_removed, \* the reported number of duplicates
    csv_out         \* the content of output_file

svars == <<spc, target_count, all_alerts, offset, fetches, out_files>>

cvars == <<cpc, run, file, df, derived_columns, duplicates_removed, csv_out>>

vars == <<spc, target_count, all_alerts, offset, fetches, out_files,
          cpc, run, file, df, derived_columns, duplicates_removed, csv_out>>

\* ------------------------------------------------------------------------
\* Generic helpers
\* ------------------------------------------------------------------------

Range(s) == {s[i] : i \in 1..Len(s)}

Max(a, b) == IF a >= b THEN a ELSE b

RECURSIVE Flatten(_)
Flatten(ss) == IF ss = <<>> THEN <<>> ELSE Head(ss) \o Flatten(Tail(ss))

\* ------------------------------------------------------------------------
\* Normalizer: mapmf_cleaner.py.  Values and text
\* ------------------------------------------------------------------------

\* A Python value is a tagged record; text (a str) is a sequence of
\* one-character strings.  Null stands for NaN, None and NaT alike.
Null == [t |-> "null", v |-> <<>>]
StrVal(s) == [t |-> "str", v |-> s]
IntVal(n) == [t |-> "int", v |-> <<n>>]
BoolVal(b) == [t |-> "bool", v |-> <<b>>]
ListVal(xs) == [t |-> "list", v |-> xs]
DictVal(pairs) == [t |-> "dict", v |-> pairs]
DateVal(y, m, d) == [t |-> "date", v |-> <<y, m, d>>]

IsList(x) == x.t = "list"
IsStr(x) == x.t = "str"
IsNull(x) == x.t = "null"

Digits == <<"0", "1", "2", "3", "4", "5", "6", "7", "8", "9">>
UpperLetters == <<"A", "B", "C", "D", "E", "F", "G", "H", "I", "J", "K", "L", "M", "N", "O", "P", "Q", "R", "S", "T", "U", "V", "W", "X", "Y", "Z">>
LowerLetters == <<"a", "b", "c", "d", "e", "f", "g", "h", "i", "j", "k", "l", "m", "n", "o", "p", "q", "r", "s", "t", "u", "v", "w", "x", "y", "z">>

DigitSet == Range(Digits)
UpperSet == Range(UpperLetters)
LetterSet == Range(UpperLetters) \cup Range(LowerLetters) \cup {"_"}
SpaceSet == {" ", "\t", "\n", "\r"}

IsDigit(c) == c \in DigitSet
IsLetter(c) == c \in LetterSet
IsSpace(c) == c \in SpaceSet

IndexIn(s, c) == CHOOSE i \in 1..Len(s) : s[i] = c
DigitValue(c) == IndexIn(Digits, c) - 1

\* str.lower()
LowerChar(c) ==
    IF c \in UpperSet THEN LowerLetters[IndexIn(UpperLetters, c)] ELSE c
Lower(s) == [i \in 1..Len(s) |-> LowerChar(s[i])]

\* `needle in haystack` for str
Contains(haystack, needle) ==
    \E i \in 0..(Len(haystack) - Len(needle)) :
        SubSeq(haystack, i + 1, i + Len(needle)) = needle

\* int(text) for a run of digits
RECURSIVE DigitsToInt(_)
DigitsToInt(s) ==
    IF s = <<>> THEN 0
    ELSE 10 * DigitsToInt(SubSeq(s, 1, Len(s) - 1)) + DigitValue(s[Len(s)])

\* str(n) for an int n >= 0
RECURSIVE IntToDigits(_)
IntToDigits(n) ==
    IF n < 10 THEN <<Digits[n + 1]>>
    ELSE IntToDigits(n \div 10) \o <<Digits[(n % 10) + 1]>>

\* n zero-padded to w digits
RECURSIVE Pad(_, _)
Pad(s, w) == IF Len(s) >= w THEN s ELSE Pad(<<"0">> \o s, w)

IsIntText(s) == s # <<>> /\ \A i \in 1..Len(s) : IsDigit(s[i])

\* separator.join(parts)
RECURSIVE JoinText(_, _)
JoinText(parts, sep) ==
    IF parts = <<>> THEN <<>>
    ELSE IF Len(parts) = 1 THEN parts[1]
    ELSE parts[1] \o sep \o JoinText(Tail(parts), sep)

\* ------------------------------------------------------------------------
\* ast.literal_eval on the literals the captures hold: lists, dicts, quoted
\* strings (either quote, no escapes), non-negative ints, None/True/False.
\* Any other text is not a literal: ValueError or SyntaxError.
\* ------------------------------------------------------------------------

ParseError == [ok |-> FALSE, val |-> Null, pos |-> 0]
Parsed(val, pos) == [ok |-> TRUE, val |-> val, pos |-> pos]

RECURSIVE SkipSpace(_, _)
SkipSpace(s, i) ==
    IF i <= Len(s) /\ IsSpace(s[i]) THEN SkipSpace(s, i + 1) ELSE i

\* the end of the run of characters satisfying a class, starting at i
RECURSIVE EndOfDigits(_, _)
EndOfDigits(s, i) ==
    IF i <= Len(s) /\ IsDigit(s[i]) THEN EndOfDigits(s, i + 1) ELSE i

RECURSIVE EndOfName(_, _)
EndOfName(s, i) ==
    IF i <= Len(s) /\ (IsLetter(s[i]) \/ IsDigit(s[i])) THEN EndOfName(s, i + 1) ELSE i

ParseString(s, i) ==
    LET q == s[i]
        closing == {j \in (i + 1)..Len(s) : s[j] = q}
    IN  IF closing = {} THEN ParseError
        ELSE LET j == CHOOSE k \in closing : \A l \in closing : k <= l
             IN  Parsed(StrVal(SubSeq(s, i + 1, j - 1)), j + 1)

ParseNumber(s, i) ==
    LET e == EndOfDigits(s, i)
        text == SubSeq(s, i, e - 1)
    IN  \* a leading zero is a SyntaxError unless every digit is zero;
        \* a letter right after the digits is an invalid literal
        IF (Len(text) > 1 /\ text[1] = "0" /\ \E k \in 1..Len(text) : text[k] # "0")
           \/ (e <= Len(s) /\ IsLetter(s[e]))
        THEN ParseError
        ELSE Parsed(IntVal(DigitsToInt(text)), e)

ParseName(s, i) ==
    LET e == EndOfName(s, i)
        text == SubSeq(s, i, e - 1)
    IN  IF text = <<"N", "o", "n", "e">> THEN Parsed(Null, e)
        ELSE IF text = <<"T", "r", "u", "e">> THEN Parsed(BoolVal(TRUE), e)
        ELSE IF text = <<"F", "a", "l", "s", "e">> THEN Parsed(BoolVal(FALSE), e)
        ELSE ParseError

RECURSIVE ParseValue(_, _)
RECURSIVE ParseItems(_, _, _)
RECURSIVE ParsePairs(_, _, _)

\* the elements of a list display after "[", up to and including "]"
ParseItems(s, i, acc) ==
    LET j == SkipSpace(s, i)
    IN  IF j > Len(s) THEN ParseError
        ELSE IF s[j] = "]" THEN Parsed(ListVal(acc), j + 1)
        ELSE LET r == ParseValue(s, j)
             IN  IF ~r.ok THEN ParseError
                 ELSE LET k == SkipSpace(s, r.pos)
                      IN  IF k > Len(s) THEN ParseError
                          ELSE IF s[k] = "," THEN ParseItems(s, k + 1, Append(acc, r.val))
                          ELSE IF s[k] = "]" THEN Parsed(ListVal(Append(acc, r.val)), k + 1)
                          ELSE ParseError

\* the key: value pairs of a dict display after "{", up to and including "}"
ParsePairs(s, i, acc) ==
    LET j == SkipSpace(s, i)
    IN  IF j > Len(s) THEN ParseError
        ELSE IF s[j] = "}" THEN Parsed(DictVal(acc), j + 1)
        ELSE LET key == ParseValue(s, j)
             IN  IF ~key.ok \/ key.val.t \in {"list", "dict"} THEN ParseError
                 ELSE LET c == SkipSpace(s, key.pos)
                      IN  IF c > Len(s) \/ s[c] # ":" THEN ParseError
                          ELSE LET val == ParseValue(s, SkipSpace(s, c + 1))
                               IN  IF ~val.ok THEN ParseError
                                   ELSE LET k == SkipSpace(s, val.pos)
                                            pair == <<key.val, val.val>>
                                        IN  IF k > Len(s) THEN ParseError
                                            ELSE IF s[k] = ","
                                            THEN ParsePairs(s, k + 1, Append(acc, pair))
                                            ELSE IF s[k] = "}"
                                            THEN Parsed(DictVal(Append(acc, pair)), k + 1)
                                            ELSE ParseError

ParseValue(s, i) ==
    IF i > Len(s) THEN ParseError
    ELSE IF s[i] = "[" THEN ParseItems(s, i + 1, <<>>)
    ELSE IF s[i] = "{" THEN ParsePairs(s, i + 1, <<>>)
    ELSE IF s[i] \in {"'", "\""} THEN ParseString(s, i)
    ELSE IF IsDigit(s[i]) THEN ParseNumber(s, i)
    ELSE IF IsLetter(s[i]) THEN ParseName(s, i)
    ELSE ParseError

\* ast.literal_eval(text): ok = FALSE stands for ValueError / SyntaxError
LiteralEval(text) ==
    LET r == ParseValue(text, SkipSpace(text, 1))
    IN  IF r.ok /\ SkipSpace(text, r.pos) > Len(text) THEN r ELSE ParseError

\* ------------------------------------------------------------------------
\* str(), repr(), json.dumps() and the text of a CSV cell
\* ------------------------------------------------------------------------

Quoted(s, q) == <<q>> \o s \o <<q>>

RECURSIVE Repr(_)
RECURSIVE PyStr(_)

\* repr(x)
Repr(x) ==
    IF x.t = "str"
    THEN (IF "'" \in Range(x.v) /\ "\"" \notin Range(x.v)
          THEN Quoted(x.v, "\"") ELSE Quoted(x.v, "'"))
    ELSE PyStr(x)

\* str(x)
PyStr(x) ==
    CASE x.t = "str" -> x.v
      [] x.t = "int" -> IntToDigits(x.v[1])
      [] x.t = "bool" -> (IF x.v[1] THEN <<"T", "r", "u", "e">> ELSE <<"F", "a", "l", "s", "e">>)
      [] x.t = "null" -> <<"N", "o", "n", "e">>
      [] x.t = "date" ->
            Pad(IntToDigits(x.v[1]), 4) \o <<"-">> \o Pad(IntToDigits(x.v[2]), 2)
                \o <<"-">> \o Pad(IntToDigits(x.v[3]), 2)
      [] x.t = "list" ->
            <<"[">> \o JoinText([i \in 1..Len(x.v) |-> Repr(x.v[i])], <<",", " ">>) \o <<"]">>
      [] x.t = "dict" ->
            <<"{">> \o JoinText([i \in 1..Len(x.v) |->
                                   Repr(x.v[i][1]) \o <<":", " ">> \o Repr(x.v[i][2])], <<",", " ">>)
                \o <<"}">>

\* json.dumps(x)
RECURSIVE JsonDumps(_)
JsonDumps(x) ==
    CASE x.t = "str" -> Quoted(x.v, "\"")
      [] x.t = "int" -> IntToDigits(x.v[1])
      [] x.t = "bool" -> (IF x.v[1] THEN <<"t", "r", "u", "e">> ELSE <<"f", "a", "l", "s", "e">>)
      [] x.t = "null" -> <<"n", "u", "l", "l">>
      [] x.t = "list" ->
            <<"[">> \o JoinText([i \in 1..Len(x.v) |-> JsonDumps(x.v[i])], <<",", " ">>) \o <<"]">>
      [] x.t = "dict" ->
            <<"{">> \o JoinText([i \in 1..Len(x.v) |->
                                   Quoted(PyStr(x.v[i][1]), "\"") \o <<":", " ">>
                                       \o JsonDumps(x.v[i][2])], <<",", " ">>)
                \o <<"}">>

\* the text df.to_csv writes for a cell: a missing value is the empty field
CsvText(x) == IF IsNull(x) THEN <<>> ELSE PyStr(x)

\* bool(x)
Truthy(x) ==
    CASE x.t = "null" -> FALSE
      [] x.t = "int" -> x.v[1] # 0
      [] x.t = "bool" -> x.v[1]
      [] x.t = "date" -> TRUE
      [] OTHER -> x.v # <<>>

\* len(x) is defined for list, str and dict; TypeError otherwise
HasLen(x) == x.t \in {"list", "str", "dict"}
PyLen(x) == Len(x.v)

\* d.get(key, default): the last pair with this key wins in a dict display
DictGet(d, key, default) ==
    LET hits == {i \in 1..Len(d.v) : d.v[i][1] = key}
    IN  IF hits = {} THEN default
        ELSE d.v[CHOOSE i \in hits : \A j \in hits : j <= i][2]

\* the elements of s at the indices satisfying Keep, in order
RECURSIVE SelectIndices(_, _, _)
SelectIndices(s, keep, i) ==
    IF i > Len(s) THEN <<>>
    ELSE IF i \in keep THEN <<s[i]>> \o SelectIndices(s, keep, i + 1)
    ELSE SelectIndices(s, keep, i + 1)

\* ------------------------------------------------------------------------
\* The helper functions of mapmf_cleaner.py
\* ------------------------------------------------------------------------

\* Mutation of ParseListColumn: text that is no literal becomes a
\* one-element list holding the text.
ParseListColumnKeepingText(value) ==
    IF IsNull(value) THEN ListVal(<<>>)
    ELSE IF IsList(value) THEN value
    ELSE IF IsStr(value)
    THEN (LET r == LiteralEval(value.v) IN IF r.ok THEN r.val ELSE ListVal(<<value>>))
    ELSE ListVal(<<>>)

\* parse_list_column(value).  literal_eval of a value that is no str (a cell
\* of a numeric column) raises ValueError, which is caught.
ParseListColumn(value) ==
    IF IsNull(value) THEN ListVal(<<>>)
    ELSE IF IsList(value) THEN value
    ELSE IF IsStr(value)
    THEN (LET r == LiteralEval(value.v) IN IF r.ok THEN r.val ELSE ListVal(<<>>))
    ELSE ListVal(<<>>)

\* parse_subjects_column(value)
ParseSubjectsColumn(value) ==
    IF IsNull(value) THEN ListVal(<<>>)
    ELSE IF IsList(value) THEN value
    ELSE IF IsStr(value)
    THEN (LET r == LiteralEval(value.v) IN IF r.ok THEN r.val ELSE ListVal(<<>>))
    ELSE ListVal(<<>>)

\* list_to_pipe_separated(value)
ListToPipeSeparated(value) ==
    IF IsList(value)
    THEN StrVal(JoinText([i \in 1..Len(value.v) |-> PyStr(value.v[i])], <<" ", "|", " ">>))
    ELSE value

\* html.unescape, for the one entity of the model's texts: "&amp;" (the
\* semicolon is optional for this entity)
RECURSIVE Unescape(_)
Unescape(s) ==
    IF s = <<>> THEN <<>>
    ELSE IF Len(s) >= 4 /\ SubSeq(s, 1, 4) = <<"&", "a", "m", "p">>
    THEN <<"&">> \o Unescape(SubSeq(s, (IF Len(s) >= 5 /\ s[5] = ";" THEN 6 ELSE 5), Len(s)))
    ELSE <<Head(s)>> \o Unescape(Tail(s))

\* re.sub(r'\s+', ' ', text)
RECURSIVE CollapseSpace(_)
CollapseSpace(s) ==
    IF s = <<>> THEN <<>>
    ELSE IF IsSpace(s[1])
    THEN <<" ">> \o CollapseSpace(SubSeq(s, SkipSpace(s, 1), Len(s)))
    ELSE <<s[1]>> \o CollapseSpace(Tail(s))

\* text.strip()
RECURSIVE Strip(_)
Strip(s) ==
    IF s = <<>> THEN <<>>
    ELSE IF IsSpace(s[1]) THEN Strip(Tail(s))
    ELSE IF IsSpace(s[Len(s)]) THEN Strip(SubSeq(s, 1, Len(s) - 1))
    ELSE s

\* clean_text(text)
CleanText(text) ==
    IF IsNull(text) THEN StrVal(<<>>)
    ELSE StrVal(Strip(CollapseSpace(Unescape(PyStr(text)))))

\* extract_primary_incident_type(types_list)
ExtractPrimary(types_list) ==
    IF IsList(types_list) /\ Len(types_list.v) > 0 THEN types_list.v[1] ELSE Null

\* Mutation of CountGender: an exact, case-insensitive match.
CountGenderExact(gender_list, target_gender) ==
    IF ~IsList(gender_list) THEN 0
    ELSE Cardinality({i \in 1..Len(gender_list.v) :
            /\ Truthy(gender_list.v[i])
            /\ Lower(PyStr(gender_list.v[i])) = Lower(target_gender)})

\* count_gender(gender_list, target_gender)
CountGender(gender_list, target_gender) ==
    IF ~IsList(gender_list) THEN 0
    ELSE Cardinality({i \in 1..Len(gender_list.v) :
            /\ Truthy(gender_list.v[i])
            /\ Contains(Lower(PyStr(gender_list.v[i])), Lower(target_gender))})

\* the lambda of gender_other_count (lines 133-136)
GenderOtherCount(x) ==
    IF ~IsList(x) THEN 0
    ELSE Cardinality({i \in 1..Len(x.v) :
            /\ IsStr(x.v[i])
            /\ Lower(x.v[i].v) \notin {<<"m", "a", "n">>, <<"w", "o", "m", "a", "n">>, <<"n", "o", "t", " ", "a", "p", "p", "l", "i", "c", "a", "b", "l", "e">>, <<>>}})

\* the lambda of journalist_types (lines 142-145)
JournalistTypes(subjects) ==
    IF ~IsList(subjects) THEN ListVal(<<>>)
    ELSE LET s == subjects.v
             keep == {i \in 1..Len(s) :
                        /\ s[i].t = "dict"
                        /\ DictGet(s[i], StrVal(<<"k", "i", "n", "d">>), Null) = StrVal(<<"j", "o", "u", "r", "n", "a", "l", "i", "s", "t">>)}
             types == [i \in 1..Len(s) |->
                         IF i \in keep THEN DictGet(s[i], StrVal(<<"t", "y", "p", "e">>), StrVal(<<>>)) ELSE Null]
         IN  ListVal(SelectIndices(types, keep, 1))

\* ------------------------------------------------------------------------
\* pd.to_datetime(errors='coerce') and the .dt accessors, for ISO dates
\* (YYYY-MM-DD); any other text is coerced to NaT
\* ------------------------------------------------------------------------

IsLeap(y) == (y % 4 = 0 /\ y % 100 # 0) \/ y % 400 = 0

DaysInMonth(y, m) ==
    IF m = 2 THEN (IF IsLeap(y) THEN 29 ELSE 28)
    ELSE IF m \in {4, 6, 9, 11} THEN 30 ELSE 31

ParseIsoDate(s) ==
    IF /\ Len(s) = 10
       /\ s[5] = "-" /\ s[8] = "-"
       /\ \A i \in {1, 2, 3, 4, 6, 7, 9, 10} : IsDigit(s[i])
    THEN LET y == DigitsToInt(SubSeq(s, 1, 4))
             m == DigitsToInt(SubSeq(s, 6, 7))
             d == DigitsToInt(SubSeq(s, 9, 10))
         IN  IF y >= 1 /\ m \in 1..12 /\ d >= 1 /\ d <= DaysInMonth(y, m)
             THEN DateVal(y, m, d) ELSE Null
    ELSE Null

\* pd.to_datetime(value, errors='coerce'); an integer is taken as nanoseconds
\* since the epoch
ToDatetime(value) ==
    CASE value.t = "date" -> value
      [] value.t = "str" -> ParseIsoDate(value.v)
      [] value.t = "int" -> DateVal(1970, 1, 1)
      [] OTHER -> Null

\* date_series.dt.month
MonthOf(date) == IF date.t = "date" THEN IntVal(date.v[2]) ELSE Null

DayNames ==
    <<<<"S", "u", "n", "d", "a", "y">>, <<"M", "o", "n", "d", "a", "y">>, <<"T", "u", "e", "s", "d", "a", "y">>, <<"W", "e", "d", "n", "e", "s", "d", "a", "y">>, <<"T", "h", "u", "r", "s", "d", "a", "y">>,
      <<"F", "r", "i", "d", "a", "y">>, <<"S", "a", "t", "u", "r", "d", "a", "y">>>>

MonthOffsets == <<0, 3, 2, 5, 0, 3, 5, 1, 4, 6, 2, 4>>

\* date_series.dt.day_name()
DayNameOf(date) ==
    IF date.t # "date" THEN Null
    ELSE LET m == date.v[2]
             y == IF m < 3 THEN date.v[1] - 1 ELSE date.v[1]
             w == (y + (y \div 4) - (y \div 100) + (y \div 400)
                     + MonthOffsets[m] + date.v[3]) % 7
         IN  StrVal(DayNames[w + 1])

\* t1 < t2 for two timestamps
DateLess(a, b) ==
    \/ a.v[1] < b.v[1]
    \/ a.v[1] = b.v[1] /\ a.v[2] < b.v[2]
    \/ a.v[1] = b.v[1] /\ a.v[2] = b.v[2] /\ a.v[3] < b.v[3]

\* ------------------------------------------------------------------------
\* Tables.  A CSV file is a header and rows of cell texts; a DataFrame is a
\* column list and rows mapping each column to a value.
\* ------------------------------------------------------------------------

EmptyFile == [columns |-> <<>>, rows |-> <<>>]
EmptyFrame == [columns |-> <<>>, rows |-> <<>>]

HasColumn(d, col) == col \in Range(d.columns)

\* pd.read_csv: an empty field is NaN; a column whose fields are all numbers
\* is numeric, any other column holds str
ReadCsv(f) ==
    LET Numeric(j) ==
            /\ \E i \in 1..Len(f.rows) : f.rows[i][j] # <<>>
            /\ \A i \in 1..Len(f.rows) : f.rows[i][j] = <<>> \/ IsIntText(f.rows[i][j])
        Cell(i, j) ==
            IF f.rows[i][j] = <<>> THEN Null
            ELSE IF Numeric(j) THEN IntVal(DigitsToInt(f.rows[i][j]))
            ELSE StrVal(f.rows[i][j])
    IN  [columns |-> f.columns,
         rows |-> [i \in 1..Len(f.rows) |->
                     [c \in Range(f.columns) |-> Cell(i, IndexIn(f.columns, c))]]]

\* df.to_csv(output_file, index=False, quoting=csv.QUOTE_NONNUMERIC)
WriteCsv(d) ==
    [columns |-> d.columns,
     rows |-> [i \in 1..Len(d.rows) |->
                 [j \in 1..Len(d.columns) |-> CsvText(d.rows[i][d.columns[j]])]]]

\* df[col] = df[col].apply(F) for every col of cols that df has
ApplyToColumns(d, cols, F(_)) ==
    [d EXCEPT !.rows =
        [i \in 1..Len(d.rows) |->
            [c \in DOMAIN d.rows[i] |->
                IF c \in cols THEN F(d.rows[i][c]) ELSE d.rows[i][c]]]]

\* df[col] = <F of each row>: a new column goes last, an old one keeps its place
SetColumn(d, col, F(_)) ==
    [columns |-> IF HasColumn(d, col) THEN d.columns ELSE Append(d.columns, col),
     rows |-> [i \in 1..Len(d.rows) |-> (col :> F(d.rows[i])) @@ d.rows[i]]]

list_columns ==
    <<"type_of_incident", "source_of_incident", "context_of_incident", "region_names",
      "gender", "who_was_attacked", "type_of_journalist_or_media_actor",
      "employment_status">>

text_columns == <<"title", "content">>

preferred_order ==
    <<"id", "title", "date", "year", "month", "day_of_week",
      "country", "region_level_1", "region_level_2",
      "primary_incident_type", "incident_type_count", "type_of_incident",
      "primary_source", "source_of_incident",
      "context_of_incident", "region_names",
      "primary_gender", "gender_male_count", "gender_female_count",
      "gender_other_count", "gender",
      "primary_victim_type", "who_was_attacked", "attacked_count",
      "type_of_journalist_or_media_actor", "employment_status",
      "subjects_count", "journalist_types", "subjects",
      "content", "content_length",
      "published_at_date", "_geo_lat", "_geo_lng">>

\* --- 1. Parse list columns, and the subjects column (lines 82-96)
ParseColumnsOf(d) ==
    ApplyToColumns(ApplyToColumns(d, Range(list_columns), ParseListColumn),
                   {"subjects"}, ParseSubjectsColumn)

\* --- 2. Clean text columns (lines 98-104)
CleanTextColumnsOf(d) == ApplyToColumns(d, Range(text_columns), CleanText)

\* --- 3. Derived columns (lines 106-149)
\* df['type_of_incident'].apply(len) raises TypeError on a value without len
LenRaises(d) ==
    /\ HasColumn(d, "type_of_incident")
    /\ \E i \in 1..Len(d.rows) : ~HasLen(d.rows[i]["type_of_incident"])

DeriveIncidentType(d) ==
    IF ~HasColumn(d, "type_of_incident") THEN d
    ELSE SetColumn(
            SetColumn(d, "primary_incident_type",
                      LAMBDA r : ExtractPrimary(r["type_of_incident"])),
            "incident_type_count", LAMBDA r : IntVal(PyLen(r["type_of_incident"])))

DeriveSource(d) ==
    IF ~HasColumn(d, "source_of_incident") THEN d
    ELSE SetColumn(d, "primary_source", LAMBDA r : ExtractPrimary(r["source_of_incident"]))

\* x[k] if isinstance(x, list) and len(x) > k else None   (k counted from 0)
ElementAt(x, k) == IF IsList(x) /\ Len(x.v) > k THEN x.v[k + 1] ELSE Null

DeriveRegion(d) ==
    IF ~HasColumn(d, "region_names") THEN d
    ELSE SetColumn(
            SetColumn(d, "region_level_1", LAMBDA r : ElementAt(r["region_names"], 1)),
            "region_level_2", LAMBDA r : ElementAt(r["region_names"], 2))

DeriveGender(d) ==
    IF ~HasColumn(d, "gender") THEN d
    ELSE SetColumn(
           SetColumn(
             SetColumn(
               SetColumn(d, "primary_gender", LAMBDA r : ExtractPrimary(r["gender"])),
               "gender_male_count", LAMBDA r : IntVal(CountGender(r["gender"], <<"m", "a", "n">>))),
             "gender_female_count", LAMBDA r : IntVal(CountGender(r["gender"], <<"w", "o", "m", "a", "n">>))),
           "gender_other_count", LAMBDA r : IntVal(GenderOtherCount(r["gender"])))

DeriveSubjects(d) ==
    IF ~HasColumn(d, "subjects") THEN d
    ELSE SetColumn(
            SetColumn(d, "subjects_count",
                      LAMBDA r : IntVal(IF IsList(r["subjects"]) THEN Len(r["subjects"].v)
                                        ELSE 0)),
            "journalist_types", LAMBDA r : JournalistTypes(r["subjects"]))

DeriveVictim(d) ==
    IF ~HasColumn(d, "who_was_attacked") THEN d
    ELSE SetColumn(d, "primary_victim_type",
                   LAMBDA r : ExtractPrimary(r["who_was_attacked"]))

DeriveColumnsOf(d) ==
    DeriveVictim(DeriveSubjects(DeriveGender(DeriveRegion(DeriveSource(
        DeriveIncidentType(d))))))

\* --- 4. Clean date column, 5. content length (lines 151-161)
ParseDatesOf(d) ==
    IF ~HasColumn(d, "date") THEN d
    ELSE LET p == ApplyToColumns(d, {"date"}, ToDatetime)
         IN  SetColumn(SetColumn(p, "month", LAMBDA r : MonthOf(r["date"])),
                       "day_of_week", LAMBDA r : DayNameOf(r["date"]))

ContentLengthOf(d) ==
    IF ~HasColumn(d, "content") THEN d
    ELSE SetColumn(d, "content_length",
                   LAMBDA r : IF IsStr(r["content"]) THEN IntVal(Len(r["content"].v))
                              ELSE Null)

\* --- 6. Handle missing values (lines 163-167); df['country'] raises KeyError
\* when the column is missing
FillRaises(d) == \E c \in {"country", "title", "content"} : ~HasColumn(d, c)

FillNa(x, default) == IF IsNull(x) THEN default ELSE x

HandleMissingOf(d) ==
    ApplyToColumns(
        ApplyToColumns(d, {"country"}, LAMBDA x : FillNa(x, StrVal(<<"U", "n", "k", "n", "o", "w", "n">>))),
        {"title", "content"}, LAMBDA x : FillNa(x, StrVal(<<>>)))

\* --- 7. Lists to pipe-separated strings, subjects to JSON (lines 169-182)
ConvertListsOf(d) ==
    ApplyToColumns(
        ApplyToColumns(d, Range(list_columns) \cup {"journalist_types"},
                       ListToPipeSeparated),
        {"subjects"}, LAMBDA x : IF IsList(x) THEN StrVal(JsonDumps(x)) ELSE x)

\* Mutation of FinalColumns: the columns outside the preferred order are
\* dropped.
FinalColumnsPreferredOnly(columns) ==
    SelectSeq(preferred_order, LAMBDA c : c \in Range(columns))

\* --- 8. Reorder columns (lines 184-207)
FinalColumns(columns) ==
    LET final_columns == SelectSeq(preferred_order, LAMBDA c : c \in Range(columns))
        remaining == SelectSeq(columns, LAMBDA c : c \notin Range(final_columns))
    IN  final_columns \o remaining

ReorderOf(d) == [d EXCEPT !.columns = FinalColumns(d.columns)]

\* Mutation of KeptRows: keep='last'.
KeptRowsLast(rows, col) ==
    {i \in 1..Len(rows) : \A j \in (i + 1)..Len(rows) : rows[j][col] # rows[i][col]}

\* --- 9. df.drop_duplicates(subset=['id'], keep='first') (lines 209-214)
KeptRows(rows, col) ==
    {i \in 1..Len(rows) : \A j \in 1..(i - 1) : rows[j][col] # rows[i][col]}

DropDuplicatesOf(d) ==
    [d EXCEPT !.rows = SelectIndices(d.rows, KeptRows(d.rows, "id"), 1)]

\* --- 10. df.sort_values('date', ascending=False) (lines 216-217).  pandas
\* sorts the rows that have a date (reversed, stable ascending argsort,
\* reversed again) and puts the rows without one last (na_position='last').
Reverse(s) == [i \in 1..Len(s) |-> s[Len(s) + 1 - i]]

RECURSIVE InsertByDate(_, _, _)
InsertByDate(sorted, i, rows) ==
    IF sorted = <<>> THEN <<i>>
    ELSE IF DateLess(rows[i]["date"], rows[Head(sorted)]["date"])
    THEN <<i>> \o sorted
    ELSE <<Head(sorted)>> \o InsertByDate(Tail(sorted), i, rows)

RECURSIVE ArgSortByDate(_, _)
ArgSortByDate(idx, rows) ==
    IF idx = <<>> THEN <<>>
    ELSE InsertByDate(ArgSortByDate(SubSeq(idx, 1, Len(idx) - 1), rows),
                      idx[Len(idx)], rows)

\* Mutation of SortIndexer: ascending=True.
SortIndexerAscending(rows) ==
    LET all == [i \in 1..Len(rows) |-> i]
        non_nan_idx == SelectSeq(all, LAMBDA i : ~IsNull(rows[i]["date"]))
        nan_idx == SelectSeq(all, LAMBDA i : IsNull(rows[i]["date"]))
    IN  ArgSortByDate(non_nan_idx, rows) \o nan_idx

SortIndexer(rows) ==
    LET all == [i \in 1..Len(rows) |-> i]
        non_nan_idx == SelectSeq(all, LAMBDA i : ~IsNull(rows[i]["date"]))
        nan_idx == SelectSeq(all, LAMBDA i : IsNull(rows[i]["date"]))
    IN  Reverse(ArgSortByDate(Reverse(non_nan_idx), rows)) \o nan_idx

\* ------------------------------------------------------------------------
\* clean_mapmf_data, step by step
\* ------------------------------------------------------------------------

CleanerIdle ==
    /\ cpc = "idle"
    /\ run = 0
    /\ file = EmptyFile
    /\ df = EmptyFrame
    /\ derived_columns = <<>>
    /\ duplicates_removed = 0
    /\ csv_out = EmptyFile

RetrieverIdle ==
    /\ spc = "idle"
    /\ target_count = 0
    /\ all_alerts = <<>>
    /\ offset = 0
    /\ fetches = <<>>
    /\ out_files = <<>>

\* df = pd.read_csv(input_file)
Load ==
    /\ cpc = "start"
    /\ df' = ReadCsv(file)
    /\ cpc' = "loaded"
    /\ UNCHANGED <<run, file, derived_columns, duplicates_removed, csv_out>>
    /\ UNCHANGED svars

ParseColumns ==
    /\ cpc = "loaded"
    /\ df' = ParseColumnsOf(df)
    /\ cpc' = "parsed"
    /\ UNCHANGED <<run, file, derived_columns, duplicates_removed, csv_out>>
    /\ UNCHANGED svars

CleanTextColumns ==
    /\ cpc = "parsed"
    /\ df' = CleanTextColumnsOf(df)
    /\ cpc' = "cleaned"
    /\ UNCHANGED <<run, file, derived_columns, duplicates_removed, csv_out>>
    /\ UNCHANGED svars

DeriveColumns ==
    /\ cpc = "cleaned"
    /\ IF LenRaises(df)
       THEN cpc' = "aborted" /\ UNCHANGED df
       ELSE cpc' = "derived" /\ df' = DeriveColumnsOf(df)
    /\ UNCHANGED <<run, file, derived_columns, duplicates_removed, csv_out>>
    /\ UNCHANGED svars

ParseDates ==
    /\ cpc = "derived"
    /\ df' = ContentLengthOf(ParseDatesOf(df))
    /\ cpc' = "dated"
    /\ UNCHANGED <<run, file, derived_columns, duplicates_removed, csv_out>>
    /\ UNCHANGED svars

HandleMissing ==
    /\ cpc = "dated"
    /\ IF FillRaises(df)
       THEN cpc' = "aborted" /\ UNCHANGED df
       ELSE cpc' = "filled" /\ df' = HandleMissingOf(df)
    /\ UNCHANGED <<run, file, derived_columns, duplicates_removed, csv_out>>
    /\ UNCHANGED svars

ConvertLists ==
    /\ cpc = "filled"
    /\ df' = ConvertListsOf(df)
    /\ cpc' = "converted"
    /\ UNCHANGED <<run, file, derived_columns, duplicates_removed, csv_out>>
    /\ UNCHANGED svars

ReorderColumns ==
    /\ cpc = "converted"
    /\ derived_columns' = df.columns
    /\ df' = ReorderOf(df)
    /\ cpc' = "reordered"
    /\ UNCHANGED <<run, file, duplicates_removed, csv_out>>
    /\ UNCHANGED svars

\* df.drop_duplicates(subset=['id']) raises KeyError without an id column
RemoveDuplicates ==
    /\ cpc = "reordered"
    /\ IF ~HasColumn(df, "id")
       THEN cpc' = "aborted" /\ UNCHANGED <<df, duplicates_removed>>
       ELSE /\ cpc' = "deduplicated"
            /\ df' = DropDuplicatesOf(df)
            /\ duplicates_removed' = Len(df.rows) - Len(df'.rows)
    /\ UNCHANGED <<run, file, derived_columns, csv_out>>
    /\ UNCHANGED svars

\* The rows with equal dates come in an order pandas' default quicksort does
\* not determine: any indexer with the same dates, position by position, as
\* the stable one may result.
SortIndexers(rows) ==
    LET n == Len(rows)
        stable == SortIndexer(rows)
    IN  {p \in [1..n -> 1..n] :
            /\ \A i, j \in 1..n : i # j => p[i] # p[j]
            /\ \A k \in 1..n : rows[p[k]]["date"] = rows[stable[k]]["date"]}

\* df.sort_values('date') raises KeyError without a date column
SortByDate ==
    /\ cpc = "deduplicated"
    /\ IF ~HasColumn(df, "date")
       THEN cpc' = "aborted" /\ UNCHANGED df
       ELSE /\ cpc' = "sorted"
            /\ \E indexer \in SortIndexers(df.rows) :
                 df' = [df EXCEPT !.rows = [k \in 1..Len(indexer) |-> df.rows[indexer[k]]]]
    /\ UNCHANGED <<run, file, derived_columns, duplicates_removed, csv_out>>
    /\ UNCHANGED svars

SaveCsv ==
    /\ cpc = "sorted"
    /\ csv_out' = WriteCsv(df)
    /\ cpc' = "done"
    /\ UNCHANGED <<run, file, df, derived_columns, duplicates_removed>>
    /\ UNCHANGED svars

\* clean_mapmf_data is run again, with the file it wrote as input_file
RunAgain ==
    /\ cpc = "done"
    /\ run = 1
    /\ run' = 2
    /\ file' = csv_out
    /\ cpc' = "start"
    /\ df' = EmptyFrame
    /\ derived_columns' = <<>>
    /\ duplicates_removed' = 0
    /\ csv_out' = EmptyFile
    /\ UNCHANGED svars

CleanNext ==
    \/ Load
    \/ ParseColumns
    \/ CleanTextColumns
    \/ DeriveColumns
    \/ ParseDates
    \/ HandleMissing
    \/ ConvertLists
    \/ ReorderColumns
    \/ RemoveDuplicates
    \/ SortByDate
    \/ SaveCsv
    \/ RunAgain

\* ------------------------------------------------------------------------
\* Input files
\* ------------------------------------------------------------------------

\* Bounds of the Normalizer's inputs
MaxRows == 3
MaxCellRows == 2
MaxList == 3

\* the text of a cell of an ordinary capture, by column and row number
DefaultCell(col, i) ==
    CASE col = "id" -> IntToDigits(i)
      [] col = "title" -> <<" ", " ", "T", "i", "t", "l", "e", " ">> \o IntToDigits(i) \o <<" ", "&", "a", "m", "p", ";", "\n", " ", " ", "m", "o", "r", "e", " ">>
      [] col = "content" -> <<"B", "o", "d", "y", " ", " ", " ">> \o IntToDigits(i)
      [] col = "date" -> <<"2", "0", "2", "4", "-", "0", "1", "-", "0", "1">>
      [] col = "country" -> (IF i = 1 THEN <<"F", "r", "a", "n", "c", "e">> ELSE <<>>)
      [] col = "type_of_incident" -> <<"[", "'", "L", "e", "g", "a", "l", "'", ",", " ", "'", "V", "e", "r", "b", "a", "l", "'", "]">>
      [] col = "source_of_incident" -> <<"[", "'", "P", "o", "l", "i", "c", "e", "'", "]">>
      [] col = "region_names" -> <<"[", "'", "L", "y", "o", "n", "'", ",", " ", "'", "F", "r", "a", "n", "c", "e", "'", ",", " ", "'", "E", "U", "'", "]">>
      [] col = "gender" -> <<"[", "'", "M", "a", "n", "'", ",", " ", "'", "W", "o", "m", "a", "n", "'", "]">>
      [] col = "subjects" ->
            <<"[", "{", "'", "g", "e", "n", "d", "e", "r", "'", ":", " ", "'", "M", "a", "n", "'", ",", " ", "'", "k", "i", "n", "d", "'", ":", " ", "'", "j", "o", "u", "r", "n", "a", "l", "i", "s", "t", "'", ",", " ", "'", "t", "y", "p", "e", "'", ":", " ", "'", "t", "v", "'", "}", ",", " ", "{", "'", "k", "i", "n", "d", "'", ":", " ", "'", "o", "t", "h", "e", "r", "'", "}", "]">>
      [] col = "who_was_attacked" -> <<"[", "'", "M", "e", "d", "i", "a", "'", "]">>
      [] col = "year" -> <<"2", "0", "2", "4">>
      [] OTHER -> <<"x">>

\* a file of n rows over the columns, the cells of some columns given
MakeFile(columns, n, given) ==
    [columns |-> columns,
     rows |-> [i \in 1..n |->
                 [j \in 1..Len(columns) |->
                    IF columns[j] \in DOMAIN given THEN given[columns[j]][i]
                    ELSE DefaultCell(columns[j], i)]]]

\* the columns the Retriever writes, in its order
ScrapedLayout ==
    <<"id", "title", "content", "date", "country", "type_of_incident",
      "region_names", "gender", "subjects">>

\* captures with other columns: unknown ones, some of the known ones missing
OtherLayouts ==
    {<<"zeta", "id", "title", "content", "date", "country", "source_of_incident",
       "year", "alpha", "who_was_attacked">>,
     <<"content", "notes", "country", "extra", "date", "title", "id">>,
     <<"id", "title", "content", "date", "gender">>,
     <<"title", "content", "country", "date">>,
     <<"id", "title", "content", "country">>}

\* the ids of a capture; row i holds one of the first i of them, which gives
\* every pattern of repeated ids
IdPool == <<<<"7">>, <<"4", "2">>, <<"1", "0", "0">>, <<"8">>, <<"1", "5">>, <<"2", "3">>>>
IdChoices(n) ==
    {[i \in 1..n |-> IdPool[f[i]]] : f \in {g \in [1..n -> 1..n] : \A i \in 1..n : g[i] <= i}}

DateTexts == {<<"2", "0", "2", "4", "-", "0", "1", "-", "0", "1">>, <<"2", "0", "2", "3", "-", "0", "6", "-", "1", "5">>, <<"2", "0", "2", "4", "-", "0", "6", "-", "0", "1">>, <<"u", "n", "k", "n", "o", "w", "n">>}

\* Files for the row-level properties: rows differ in id and date
CleanInputs ==
    UNION {
        {MakeFile(ScrapedLayout, n, ("id" :> ids) @@ ("date" :> dates)) :
            ids \in IdChoices(n), dates \in [1..n -> DateTexts]} :
        n \in 1..MaxRows}
    \cup
    UNION {
        {MakeFile(layout, 2, ("id" :> ids) @@ ("date" :> dates)) :
            ids \in IdChoices(2), dates \in [1..2 -> {<<"2", "0", "2", "4", "-", "0", "1", "-", "0", "1">>, <<>>}]} :
        layout \in OtherLayouts}

\* Files for the cell-level properties: one column holds texts of every kind
CellTexts ==
    {<<"[", "'", "M", "a", "n", "'", ",", " ", "'", "W", "o", "m", "a", "n", "'", "]">>, <<"[", "'", "5", "'", "]">>, <<"5">>, <<"'", "M", "a", "n", "'">>, <<"M", "a", "n", " ", "|", " ", "W", "o", "m", "a", "n">>, <<"[">>,
     <<"2", "0", "2", "3", "-", "0", "6", "-", "1", "5">>, <<>>}

ProbeColumns == {"type_of_incident", "gender", "subjects", "date"}

CellInputs ==
    UNION {
        {MakeFile(ScrapedLayout, n, (col :> cells)) :
            cells \in [1..n -> CellTexts], col \in ProbeColumns} :
        n \in 1..MaxCellRows}

\* Files of one row whose gender cell is a list of words
Words == {<<"M", "a", "n">>, <<"W", "o", "m", "a", "n">>}
WordLists == UNION {[1..n -> Words] : n \in 0..MaxList}
ListText(words) == PyStr(ListVal([i \in 1..Len(words) |-> StrVal(words[i])]))

GenderInputs ==
    {MakeFile(ScrapedLayout, 1, ("gender" :> <<ListText(words)>>)) : words \in WordLists}

CleanerStart ==
    /\ cpc = "start"
    /\ run = 1
    /\ df = EmptyFrame
    /\ derived_columns = <<>>
    /\ duplicates_removed = 0
    /\ csv_out = EmptyFile
    /\ RetrieverIdle

CleanInit == file \in CleanInputs /\ CleanerStart
CellsInit == file \in CellInputs /\ CleanerStart
GenderInit == file \in GenderInputs /\ CleanerStart

SpecClean == CleanInit /\ [][CleanNext]_vars
SpecCells == CellsInit /\ [][CleanNext]_vars
SpecGender == GenderInit /\ [][CleanNext]_vars

\* ------------------------------------------------------------------------
\* Retriever: mapmf_scraper.py
\* ------------------------------------------------------------------------

\* Bounds of the Retriever's inputs
MaxTarget == 3
MaxHits == 2
MaxEstHalf == 5

batch_size == 1000

\* Raw records are ordered key/value lists (a JSON object).
RecA == << <<"id", "a">>, <<"title", "ta">> >>
RecB == << <<"id", "b">>, <<"_formatted", "fb">>, <<"country", "cb">> >>
RecordPool == {RecA, RecB}

Pages == UNION {[1..n -> RecordPool] : n \in 0..MaxHits}
EstValues == {500 * k : k \in 0..MaxEstHalf}

\* What fetch_alerts can return: None (a RequestException was caught), or the
\* decoded JSON object, which may lack either key.
NoneResult == [kind |-> "none", keys |-> {}, hits |-> <<>>, est |-> 0]
JsonResults ==
    {[kind |-> "json", keys |-> ks,
      hits |-> IF "hits" \in ks THEN h ELSE <<>>,
      est |-> IF "estimatedTotalHits" \in ks THEN e ELSE 0] :
        ks \in SUBSET {"hits", "estimatedTotalHits"}, h \in Pages, e \in EstValues}
Results == {NoneResult} \cup JsonResults

\* `not result or 'hits' not in result`
FetchFailed(result) ==
    \/ result.kind = "none"
    \/ result.keys = {}
    \/ "hits" \notin result.keys

\* result.get('estimatedTotalHits', 0)
EstimatedTotal(result) ==
    IF "estimatedTotalHits" \in result.keys THEN result.est ELSE 0

\* Mutation of ReachedEnd: the end test made strict.
ReachedEndStrict(off, result) == off + batch_size > EstimatedTotal(result)

\* `if offset + batch_size >= estimated_total: break`
ReachedEnd(off, result) == off + batch_size >= EstimatedTotal(result)

\* Mutation of Extend: the page replaces what was collected.
ExtendReplacing(alerts, hits) == hits

\* all_alerts.extend(hits)
Extend(alerts, hits) == alerts \o hits

\* Mutation of LoopCondition: one iteration too many.
LoopConditionInclusive == Len(all_alerts) <= target_count

\* `while len(all_alerts) < target_count`
LoopCondition == Len(all_alerts) < target_count

columns_to_keep ==
    <<"id", "title", "content", "date", "country",
      "type_of_incident", "source_of_incident", "context_of_incident",
      "region_names", "year", "published_at_date",
      "_geo_lat", "_geo_lng",
      "gender", "subjects", "who_was_attacked",
      "type_of_journalist_or_media_actor", "employment_status",
      "attacked_count">>

RecordKeys(rec) == [i \in 1..Len(rec) |-> rec[i][1]]

RecordGet(rec, key) ==
    IF \E i \in 1..Len(rec) : rec[i][1] = key
    THEN rec[CHOOSE i \in 1..Len(rec) : rec[i][1] = key][2]
    ELSE "NaN"

\* Keys in order of first appearance: the columns of pd.DataFrame(all_alerts)
RECURSIVE Dedupe(_, _)
Dedupe(s, seen) ==
    IF s = <<>> THEN <<>>
    ELSE IF Head(s) \in seen THEN Dedupe(Tail(s), seen)
    ELSE <<Head(s)>> \o Dedupe(Tail(s), seen \cup {Head(s)})

FrameColumns(alerts) ==
    Dedupe(Flatten([i \in 1..Len(alerts) |-> RecordKeys(alerts[i])]), {})

\* df = pd.DataFrame(all_alerts); df = df[existing_columns]
ScrapedTable(alerts) ==
    LET cols == FrameColumns(alerts)
        InFrame(c) == c \in Range(cols)
        existing_columns == SelectSeq(columns_to_keep, InFrame)
    IN  [columns |-> existing_columns,
         rows |-> [i \in 1..Len(alerts) |->
                     [j \in 1..Len(existing_columns) |->
                        RecordGet(alerts[i], existing_columns[j])]]]

\* One iteration of the while loop whose condition holds: fetch, then the
\* three checks in the code's order.
Iterate ==
    /\ spc = "loop"
    /\ LoopCondition
    /\ \E result \in Results :
         /\ fetches' = Append(fetches, [offset |-> offset, result |-> result])
         /\ IF FetchFailed(result)
            THEN /\ spc' = "save"
                 /\ UNCHANGED <<all_alerts, offset>>
            ELSE IF result.hits = <<>>
            THEN /\ spc' = "save"
                 /\ UNCHANGED <<all_alerts, offset>>
            ELSE /\ all_alerts' = Extend(all_alerts, result.hits)
                 /\ IF ReachedEnd(offset, result)
                    THEN /\ spc' = "save"
                         /\ UNCHANGED offset
                    ELSE /\ spc' = "loop"
                         /\ offset' = offset + batch_size
    /\ UNCHANGED <<target_count, out_files>>
    /\ UNCHANGED cvars

\* The while condition is false: leave the loop.
ExitLoop ==
    /\ spc = "loop"
    /\ ~LoopCondition
    /\ spc' = "save"
    /\ UNCHANGED <<target_count, all_alerts, offset, fetches, out_files>>
    /\ UNCHANGED cvars

\* Lines 78-104: build the table, project the columns, write the file.
Save ==
    /\ spc = "save"
    /\ out_files' = Append(out_files, ScrapedTable(all_alerts))
    /\ spc' = "done"
    /\ UNCHANGED <<target_count, all_alerts, offset, fetches>>
    /\ UNCHANGED cvars

ScrapeInit ==
    /\ spc = "loop"
    /\ target_count \in -1..MaxTarget
    /\ all_alerts = <<>>
    /\ offset = 0
    /\ fetches = <<>>
    /\ out_files = <<>>
    /\ CleanerIdle

ScrapeNext == Iterate \/ ExitLoop \/ Save

SpecScrape == ScrapeInit /\ [][ScrapeNext]_vars

SpecScrapeFair == SpecScrape /\ WF_vars(ScrapeNext)

\* ------------------------------------------------------------------------
\* Properties of the Retriever
\* ------------------------------------------------------------------------

LastFetch == fetches[Len(fetches)]

\* A fetch that produced no page: None, or a body without 'hits'.
NoPage(result) == result.kind = "none" \/ "hits" \notin result.keys

\* The four stop conditions of the accumulation loop, read off the history.
StopTarget == Len(all_alerts) >= target_count
StopEmptyPage ==
    fetches # <<>> /\ ~NoPage(LastFetch.result) /\ LastFetch.result.hits = <<>>
StopEnd ==
    /\ fetches # <<>>
    /\ ~NoPage(LastFetch.result)
    /\ LastFetch.offset + 1000 >=
         (IF "estimatedTotalHits" \in LastFetch.result.keys
          THEN LastFetch.result.est ELSE 0)
StopFailed == fetches # <<>> /\ NoPage(LastFetch.result)
AnyStop == StopTarget \/ StopEmptyPage \/ StopEnd \/ StopFailed

FetchIssued == Len(fetches') = Len(fetches) + 1

\* C2: in every step of scrape_all_alerts a fetch is issued if and only if
\* none of the four stop conditions (target reached, empty page, end of the
\* index reached, failed fetch) holds, and a stop condition that holds keeps
\* holding, so no fetch follows it and a failed fetch is never reattempted.
C2_FetchIffNoStop ==
    [][(FetchIssued <=> ~AnyStop) /\ (AnyStop => AnyStop')]_vars

\* C2 witness: a second fetch was issued, failed, and the run ended.
C2_Witness ==
    /\ spc = "done"
    /\ Len(fetches) = 2
    /\ StopFailed
    /\ ~StopTarget

\* The records of every page fetched, in fetch order.
FetchedRecords ==
    Flatten([i \in 1..Len(fetches) |->
               IF NoPage(fetches[i].result) THEN <<>> ELSE fetches[i].result.hits])

TableHolds(table, records) ==
    /\ Len(table.rows) = Len(records)
    /\ \A i \in 1..Len(records) :
         /\ Len(table.rows[i]) = Len(table.columns)
         /\ \A j \in 1..Len(table.columns) :
              table.rows[i][j] = RecordGet(records[i], table.columns[j])
    /\ \A i \in 1..Len(records) : \A k \in 1..Len(records[i]) :
         records[i][k][1] \in Range(columns_to_keep)
            => records[i][k][1] \in Range(table.columns)

\* C3: when the k-th fetch fails, the run writes the output file exactly once
\* and the table written holds exactly the records of the k-1 pages fetched
\* before it, in fetch order; nothing is written before the loop has ended.
C3_PartialResultsWritten ==
    /\ spc # "done" => out_files = <<>>
    /\ (spc = "done" /\ StopFailed) =>
         /\ Len(out_files) = 1
         /\ \A i \in 1..(Len(fetches) - 1) : ~NoPage(fetches[i].result)
         /\ TableHolds(out_files[1], FetchedRecords)

\* C3 witness: the third fetch failed after two pages of one record each.
C3_Witness ==
    /\ spc = "done"
    /\ Len(fetches) = 3
    /\ StopFailed
    /\ Len(out_files) = 1
    /\ Len(out_files[1].rows) = 2

FetchBound ==
    /\ Len(fetches) <= Max(target_count, 0)
    /\ \A i \in 1..Len(fetches) : fetches[i].offset = 1000 * (i - 1)

\* C10: the loop issues at most max(target_count, 0) fetches, at the offsets
\* 0, 1000, 2000, ... in this order, and the run ends.
C10_LoopTerminates == [](FetchBound) /\ <>(spc = "done")

\* C10 witness: a run that needed as many fetches as its target allows.
C10_Witness ==
    /\ spc = "done"
    /\ target_count = MaxTarget
    /\ Len(fetches) = MaxTarget
    /\ fetches[Len(fetches)].offset = 1000 * (MaxTarget - 1)

\* ------------------------------------------------------------------------
\* Properties of the Normalizer
\* ------------------------------------------------------------------------

\* the rows of the input file, as read
InputRows == ReadCsv(file).rows

FirstWithId(rows, id) ==
    CHOOSE i \in 1..Len(rows) :
        /\ rows[i]["id"] = id
        /\ \A j \in 1..(i - 1) : rows[j]["id"] # id

\* C1: in the table clean_mapmf_data writes every id of the input appears in
\* exactly one row, that row carries the (cleaned) title and content of the
\* first input row with this id, and the number of duplicates reported is
\* the input row count minus the output row count.
C1_FirstOccurrenceWins ==
    cpc = "done" =>
        LET input == InputRows
        IN  /\ \A i \in 1..Len(input) :
                 Cardinality({k \in 1..Len(df.rows) :
                                df.rows[k]["id"] = input[i]["id"]}) = 1
            /\ \A k \in 1..Len(df.rows) :
                 /\ \E i \in 1..Len(input) : input[i]["id"] = df.rows[k]["id"]
                 /\ LET first == input[FirstWithId(input, df.rows[k]["id"])]
                    IN  /\ df.rows[k]["title"] = CleanText(first["title"])
                        /\ df.rows[k]["content"] = CleanText(first["content"])
            /\ duplicates_removed = Len(input) - Len(df.rows)
            /\ csv_out = WriteCsv(df)

\* C1 witness: three rows, the last two with the same id; one duplicate is
\* reported and the date sort has moved the surviving row to the top.
C1_Witness ==
    /\ cpc = "done"
    /\ run = 1
    /\ Len(file.rows) = 3
    /\ InputRows[2]["id"] = InputRows[3]["id"]
    /\ InputRows[1]["id"] # InputRows[2]["id"]
    /\ duplicates_removed = 1
    /\ df.rows[1]["id"] = InputRows[2]["id"]
    /\ df.rows[1]["title"] = StrVal(<<"T", "i", "t", "l", "e", " ", "2", " ", "&", " ", "m", "o", "r", "e">>)

HasDate(row) == row["date"].t = "date"

\* C4: the table written is ordered by date, most recent first, and every
\* row without a date comes after all rows that have one.
C4_SortedByDateDescending ==
    cpc \in {"sorted", "done"} =>
        \A i, j \in 1..Len(df.rows) :
            i < j =>
                /\ (HasDate(df.rows[i]) /\ HasDate(df.rows[j]))
                      => ~DateLess(df.rows[i]["date"], df.rows[j]["date"])
                /\ ~HasDate(df.rows[i]) => ~HasDate(df.rows[j])

ColumnOf(f, col) ==
    [i \in 1..Len(f.rows) |-> f.rows[i][IndexIn(f.columns, col)]]

\* C4 witness: the dates 2024-01-01, 2023-06-15, 2024-06-01 with distinct ids
\* are written as 2024-06-01, 2024-01-01, 2023-06-15.
C4_Witness ==
    /\ cpc = "done"
    /\ run = 1
    /\ ColumnOf(file, "date") = <<<<"2", "0", "2", "4", "-", "0", "1", "-", "0", "1">>, <<"2", "0", "2", "3", "-", "0", "6", "-", "1", "5">>, <<"2", "0", "2", "4", "-", "0", "6", "-", "0", "1">>>>
    /\ ColumnOf(file, "id") = <<<<"7">>, <<"4", "2">>, <<"1", "0", "0">>>>
    /\ ColumnOf(csv_out, "date") = <<<<"2", "0", "2", "4", "-", "0", "6", "-", "0", "1">>, <<"2", "0", "2", "4", "-", "0", "1", "-", "0", "1">>, <<"2", "0", "2", "3", "-", "0", "6", "-", "1", "5">>>>
    /\ ColumnOf(csv_out, "id") = <<<<"1", "0", "0">>, <<"7">>, <<"4", "2">>>>

\* the text of a cell the run must have replaced by an empty one: text that
\* is not a list literal
NotAListLiteral(text) ==
    text # <<>> /\ ~(LiteralEval(text).ok /\ LiteralEval(text).val.t = "list")

\* C5: whatever the text of a cell of a list-valued column, of subjects or of
\* date, the run completes and writes its output, and a cell that held no
\* list comes out as the empty default.
C5_MalformedFieldDegrades ==
    (run = 1 /\ cpc \in {"done", "aborted"}) =>
        /\ cpc = "done"
        /\ \A i \in 1..Len(file.rows) : \A c \in {"type_of_incident", "gender"} :
             NotAListLiteral(ColumnOf(file, c)[i]) => ColumnOf(csv_out, c)[i] = <<>>

\* C6: a second run, on the file the first run wrote, completes and writes a
\* table with the same number of rows and the same ids.
C6_SecondRunKeepsRows ==
    (run = 2 /\ cpc \in {"done", "aborted"}) =>
        /\ cpc = "done"
        /\ Len(csv_out.rows) = Len(file.rows)
        /\ Range(ColumnOf(csv_out, "id")) = Range(ColumnOf(file, "id"))

ManWomanMan == ListVal(<<StrVal(<<"M", "a", "n">>), StrVal(<<"W", "o", "m", "a", "n">>), StrVal(<<"M", "a", "n">>)>>)

\* C7 as stated: a gender field that decodes to ["Man", "Woman", "Man"] gives
\* gender_male_count = 2, gender_female_count = 1 and primary_gender = "Man".
C7_AsStated ==
    (cpc = "derived" /\ df.rows[1]["gender"] = ManWomanMan) =>
        /\ df.rows[1]["gender_male_count"] = IntVal(2)
        /\ df.rows[1]["gender_female_count"] = IntVal(1)
        /\ df.rows[1]["primary_gender"] = StrVal(<<"M", "a", "n">>)

\* C7, amended: a gender field that decodes to ["Man", "Woman", "Man"] gives
\* gender_male_count = 3 ("Woman" contains "man"), gender_female_count = 1
\* and primary_gender = "Man".
C7_GenderCounts ==
    (cpc = "derived" /\ df.rows[1]["gender"] = ManWomanMan) =>
        /\ df.rows[1]["gender_male_count"] = IntVal(3)
        /\ df.rows[1]["gender_female_count"] = IntVal(1)
        /\ df.rows[1]["primary_gender"] = StrVal(<<"M", "a", "n">>)

\* C7 witness: the derived columns of such a row
C7_Witness ==
    /\ cpc = "derived"
    /\ run = 1
    /\ ColumnOf(file, "gender")[1] = <<"[", "'", "M", "a", "n", "'", ",", " ", "'", "W", "o", "m", "a", "n", "'", ",", " ", "'", "M", "a", "n", "'", "]">>
    /\ df.rows[1]["gender"] = ManWomanMan
    /\ df.rows[1]["gender_male_count"] = IntVal(3)

\* the gender cell of the second run's input is the pipe-joined text of a
\* list of at least one word, and parse_list_column has been applied to it
PipeJoinedParsed ==
    /\ run = 2
    /\ cpc = "parsed"
    /\ \E words \in WordLists :
         words # <<>> /\ ColumnOf(file, "gender")[1] = JoinText(words, <<" ", "|", " ">>)

\* C9 as stated: parse_list_column turns pipe-joined text of a previous run
\* into a single-element sequence.
C9_AsStated ==
    PipeJoinedParsed =>
        /\ IsList(df.rows[1]["gender"])
        /\ Len(df.rows[1]["gender"].v) = 1

\* C9, amended: parse_list_column does not raise on pipe-joined text of a
\* previous run that is no literal, and returns the empty sequence.
C9_PipeJoinedParsesEmpty ==
    PipeJoinedParsed => df.rows[1]["gender"] = ListVal(<<>>)

\* C9 witness: "Man | Woman", written by the first run, parsed by the second
C9_Witness ==
    /\ PipeJoinedParsed
    /\ ColumnOf(file, "gender")[1] = <<"M", "a", "n", " ", "|", " ", "W", "o", "m", "a", "n">>
    /\ df.rows[1]["gender"] = ListVal(<<>>)

IndexOf(s, x) == CHOOSE i \in 1..Len(s) : s[i] = x

PreferredColumns == Range(preferred_order)

\* C8: the columns written are a permutation of the columns the table has
\* after derivation; those of the preferred list come first, in its order,
\* and the others follow in the order they had before.
C8_ColumnOrder ==
    cpc \in {"reordered", "deduplicated", "sorted", "done"} =>
        /\ Len(df.columns) = Len(derived_columns)
        /\ Range(df.columns) = Range(derived_columns)
        /\ \A i, j \in 1..Len(df.columns) :
             i < j =>
                LET a == df.columns[i]
                    b == df.columns[j]
                    InPreferred(c) == c \in PreferredColumns
                IN  /\ a # b
                    /\ InPreferred(b) => InPreferred(a)
                    /\ (InPreferred(a) /\ InPreferred(b))
                          => IndexOf(preferred_order, a) < IndexOf(preferred_order, b)
                    /\ (~InPreferred(a) /\ ~InPreferred(b))
                          => IndexOf(derived_columns, a) < IndexOf(derived_columns, b)
        /\ cpc = "done" => csv_out.columns = df.columns

\* C8 witness: a capture whose first column is unknown; the unknown columns
\* are written last, after the derived ones.
C8_Witness ==
    /\ cpc = "done"
    /\ run = 1
    /\ file.columns[1] = "zeta"
    /\ "alpha" \in Range(file.columns)
    /\ SubSeq(csv_out.columns, Len(csv_out.columns) - 1, Len(csv_out.columns))
          = <<"zeta", "alpha">>
    /\ csv_out.columns[1] = "id"
    /\ "primary_victim_type" \in Range(csv_out.columns)

====
